---- MODULE Spec2Model ----
(***************************************************************************)
(* Model of the moving-window trend matrix (FP_classes.py, class Trend),   *)
(* the run-continuity resolver (FP_functions.py, ExtendPeriod) and the     *)
(* fragment stitcher (FP_functions.py, ConcatModels).                      *)
(*                                                                         *)
(* Timestamps are integers: DateNum(y, m, d) orders calendar dates the way *)
(* numpy.datetime64 / cftime comparison does.  Real numbers are exact      *)
(* rationals [num, den] (floating-point rounding is not modelled); NaN is  *)
(* the record with nan = TRUE.                                             *)
(***************************************************************************)
EXTENDS Integers, Sequences, FiniteSets, TLC

VARIABLES
    comp,         \* which component this behaviour exercises
    pc,           \* position of the running operation
    gradient,     \* Trend.gradient: sequence of [time, nan, val]
    minTrend,     \* Trend.minTrend
    yearStart,    \* CalculateTrends: yearStart (1870 in the source, "can be changed")
    yearEnd,      \* CalculateTrends: yearEnd (2024 in the source; a parameter of computeTrends)
    svdRaises,    \* build property: LAPACK's least squares raises on NaN input
    startYear,    \* CalculateTrends: the outer loop's start_year
    trends,       \* Trend.trends: the dictionary (start_year, end_year) -> value
    trendError,   \* "none", or the exception caught at line 240
    key,          \* ExtendPeriod: the key argument (a string, as its characters)
    modelInput,   \* ExtendPeriod: the historical run [source_id, variant_label, time]
    scenarioModels,     \* ExtendPeriod: the registry, a dict as its (key, value) items in order
    scenarioModelsFlat, \* ExtendPeriod: the flattened registry (a local of the fallback path)
    modelFullPeriod,    \* ExtendPeriod: [status, time, scenario], the result or the exception
    randomDraws,        \* number of values drawn from the module random
    modelDict,    \* ConcatModels: the fragments of one run, each [calendar, time]
    stitched      \* ConcatModels: [status, time], the dataset returned or the exception

trendVars == <<gradient, minTrend, yearStart, yearEnd, svdRaises, startYear, trends, trendError>>

extendVars == <<key, modelInput, scenarioModels, scenarioModelsFlat, modelFullPeriod, randomDraws>>

concatVars == <<modelDict, stitched>>

vars == <<comp, pc, trendVars, extendVars, concatVars>>

\* ---------------------------------------------------------------- bounds
\* The analysis range of the bounded model is YearStart .. YearStart + span, span <= MaxSpan.
MaxSpan == 4
\* minTrend ranges over 0 .. MaxMinTrend.
MaxMinTrend == 3
\* The gradient series has two monotone segments of up to MaxSegYears years each.
MaxSegYears == 3

\* The registry is built from up to MaxScenarios scenario runs.
MaxScenarios == 3
\* A run has up to MaxFragments fragments of up to MaxFragLen time steps each.
MaxFragments == 2
MaxFragLen == 2

\* ---------------------------------------------------------------- program constants
monStart == 1
monEnd == 12
YearStart == 1870
dayStart == 1
dayEnd == 31
interval == 1
trendLength == 120

\* ---------------------------------------------------------------- values
NaN == [nan |-> TRUE, num |-> 0, den |-> 1]

Abs(n) == IF n < 0 THEN -n ELSE n

RECURSIVE Gcd(_, _)
Gcd(a, b) == IF b = 0 THEN a ELSE Gcd(b, a % b)

\* The real number n/d (d # 0) in lowest terms with a positive denominator.
Frac(n, d) ==
    LET g == Gcd(Abs(n), Abs(d))
        s == IF d < 0 THEN -1 ELSE 1
    IN  [nan |-> FALSE, num |-> s * (n \div g), den |-> s * (d \div g)]

\* A calendar date as a number; months are given 31 slots so that order is calendar order.
DateNum(y, m, d) == (y * 12 + (m - 1)) * 31 + (d - 1)

\* Sum of f[i] for i in lo..hi (empty sum 0), by halving.
RECURSIVE SumRange(_, _, _)
SumRange(f, lo, hi) ==
    IF lo > hi THEN 0
    ELSE IF lo = hi THEN f[lo]
    ELSE LET mid == (lo + hi) \div 2
         IN  SumRange(f, lo, mid) + SumRange(f, mid + 1, hi)

\* ---------------------------------------------------------------- Trend.CalculateTrends
\* np.arange(len(self.gradient.time))
indexTime == [i \in 1..Len(gradient) |-> i - 1]

\* self.gradient.sel(time = (time >= start_date) & (time <= end_date))
gradientSubset(start_year, end_year) ==
    LET start_date == DateNum(start_year, monStart, dayStart)
        end_date == DateNum(end_year, monEnd, dayEnd)
    IN  SelectSeq(gradient, LAMBDA r : r.time >= start_date /\ r.time <= end_date)

\* indexTime[:len(gradientSubset.time)]
indexTimeSubset(sub) == SubSeq(indexTime, 1, Len(sub))

\* np.polyfit(x, y, 1): the least-squares slope of y against x, as an exact rational
\*     slope = sum((x - mean(x)) * y) / sum((x - mean(x)) * x)
\* (both sums scaled by the same factor k/g so that they stay integers).  With a NaN in
\* y the LAPACK routine either fails to converge (LinAlgError) or yields NaN coefficients.
polyfit(x, y) ==
    LET k == Len(x)
        hasNaN == \E i \in 1..k : y[i].nan
        sx == SumRange(x, 1, k)
        g == Gcd(k, Abs(sx))
        cx == [i \in 1..k |-> (k \div g) * x[i] - (sx \div g)]
        sxy == SumRange([i \in 1..k |-> cx[i] * y[i].val], 1, k)
        sxx == SumRange([i \in 1..k |-> cx[i] * x[i]], 1, k)
    IN  IF hasNaN
        THEN [raised |-> svdRaises, slope |-> NaN]
        ELSE [raised |-> FALSE, slope |-> Frac(sxy, sxx)]

\* Mutant of Scale: the slope rescaled to one year (12 months) instead of trendLength.
Scale_PerYear(slope) ==
    IF slope.nan THEN NaN ELSE Frac(slope.num * 12, slope.den)

\* slope*trendLength
Scale(slope) ==
    IF slope.nan THEN NaN ELSE Frac(slope.num * trendLength, slope.den)

\* Mutant of Cell: the sample guard written >= instead of >.
Cell_AtLeast12(start_year, end_year) ==
    IF start_year >= end_year THEN [raised |-> FALSE, value |-> NaN]
    ELSE IF end_year - start_year < minTrend THEN [raised |-> FALSE, value |-> NaN]
    ELSE LET sub == gradientSubset(start_year, end_year)
             idx == indexTimeSubset(sub)
         IN  IF Len(idx) >= 12 * interval
             THEN LET fit == polyfit(idx, sub)
                  IN  [raised |-> fit.raised, value |-> Scale(fit.slope)]
             ELSE [raised |-> FALSE, value |-> NaN]

\* The body of the inner loop for one (start_year, end_year): the value stored, or raised.
Cell(start_year, end_year) ==
    IF start_year >= end_year THEN [raised |-> FALSE, value |-> NaN]
    ELSE IF end_year - start_year < minTrend THEN [raised |-> FALSE, value |-> NaN]
    ELSE LET sub == gradientSubset(start_year, end_year)
             idx == indexTimeSubset(sub)
         IN  IF Len(idx) > 12 * interval
             THEN LET fit == polyfit(idx, sub)
                  IN  [raised |-> fit.raised, value |-> Scale(fit.slope)]
             ELSE [raised |-> FALSE, value |-> NaN]

\* Mutant of endYearFirst: the end years start at yearStart.
endYearFirst_NoMinTrend == yearStart

\* range(yearStart + self.minTrend, yearEnd+1, interval): its first value, its values
endYearFirst == yearStart + minTrend

EndYears == endYearFirst..yearEnd

\* Mutant of StartYears: the stop of the range without its +1.
StartYears_StopShort == yearStart..(yearEnd - minTrend - 1)

\* range(yearStart, yearEnd+1 - self.minTrend, interval)
StartYears == yearStart..(yearEnd - minTrend)

\* The inner loop for start_year: the outcome of each end year's body, in loop order.
RowCells(start_year) ==
    <<>> \o [j \in 1..(yearEnd - endYearFirst + 1) |->
                Cell(start_year, endYearFirst + (j - 1) * interval)]

\* The position of the first body that raises, or Len(row) + 1 when none does.
FirstRaise(row) ==
    IF \E j \in 1..Len(row) : row[j].raised
    THEN CHOOSE j \in 1..Len(row) : row[j].raised /\ \A i \in 1..(j - 1) : ~row[i].raised
    ELSE Len(row) + 1

\* Dictionary update: d with d[k] = v for the keys k of the function upd.
Update(d, upd) ==
    [k \in DOMAIN d \cup DOMAIN upd |-> IF k \in DOMAIN upd THEN upd[k] ELSE d[k]]

EmptyDict == [k \in {} |-> NaN]

\* Lines 192-205: self.trends = {} and the loop is entered.
CalculateTrendsBegin ==
    /\ comp = "trend"
    /\ pc = "new"
    /\ trends' = EmptyDict
    /\ startYear' = yearStart
    /\ pc' = IF yearStart \in StartYears THEN "loop" ELSE "done"
    /\ UNCHANGED <<comp, gradient, minTrend, yearStart, yearEnd, svdRaises, trendError, extendVars, concatVars>>

\* Lines 208-236: one iteration of the outer loop (the whole inner loop for start_year);
\* an exception leaves the loop for the handler of line 240, which only prints.
CalculateTrendsRow ==
    /\ comp = "trend"
    /\ pc = "loop"
    /\ \E row \in {RowCells(startYear)} : \E stop \in {FirstRaise(row)} :
           /\ trends' = Update(trends,
                   [cell \in {startYear} \X {endYearFirst + (j - 1) * interval : j \in 1..(stop - 1)}
                       |-> row[((cell[2] - endYearFirst) \div interval) + 1].value])
           /\ IF stop <= Len(row)
              THEN /\ trendError' = "LinAlgError"
                   /\ pc' = "done"
                   /\ UNCHANGED startYear
              ELSE /\ trendError' = trendError
                   /\ startYear' = startYear + interval
                   /\ pc' = IF startYear + interval \in StartYears THEN "loop" ELSE "done"
    /\ UNCHANGED <<comp, gradient, minTrend, yearStart, yearEnd, svdRaises, extendVars, concatVars>>

\* ---------------------------------------------------------------- dictionaries and strings
\* A Python dict is the sequence of its items [key, value] in insertion order.
HasKey(d, k) == \E i \in 1..Len(d) : d[i].key = k

Get(d, k) == d[CHOOSE i \in 1..Len(d) : d[i].key = k].value

\* d[k] = v: a key of d keeps its place, a new key goes last.
Put(d, k, v) ==
    IF HasKey(d, k)
    THEN [i \in 1..Len(d) |-> IF d[i].key = k THEN [key |-> k, value |-> v] ELSE d[i]]
    ELSE Append(d, [key |-> k, value |-> v])

\* list(d.keys())
Keys(d) == [i \in 1..Len(d) |-> d[i].key]

\* str.index('_'): the position (from 0) of the first underscore, -1 for ValueError.
IndexOfUnderscore(str) ==
    IF \E i \in 1..Len(str) : str[i] = "_"
    THEN (CHOOSE i \in 1..Len(str) : str[i] = "_" /\ \A j \in 1..(i - 1) : str[j] # "_") - 1
    ELSE -1

\* str(counter) for the counters of the bounded model
Str(counter) == <<CASE counter = 0 -> "0" [] counter = 1 -> "1" [] counter = 2 -> "2"
                    [] counter = 3 -> "3" [] counter = 4 -> "4" [] OTHER -> "9">>

\* ---------------------------------------------------------------- CreateScenarioDictionary
\* sourceID + '_' + parentVariant
ScenarioID(ds) == ds.source_id \o <<"_">> \o ds.parent_variant_label

\* scenarioModels[scenarioID].append(model) for the models of the list, in order.
RECURSIVE CreateScenarioDictionary(_)
CreateScenarioDictionary(modelListScenario) ==
    IF modelListScenario = <<>> THEN <<>>
    ELSE LET n == Len(modelListScenario)
             d == CreateScenarioDictionary(SubSeq(modelListScenario, 1, n - 1))
             model == modelListScenario[n]
             id == ScenarioID(model)
         IN  Put(d, id, (IF HasKey(d, id) THEN Get(d, id) ELSE <<>>) \o <<model>>)

\* ---------------------------------------------------------------- ExtendPeriod
\* Lines 221-232: the registry with every multi-candidate key split into indexed keys.
\* The split without the index suffix: every candidate of a key is stored under the key itself.
RECURSIVE FlattenValue_NoSuffix(_, _, _, _)
FlattenValue_NoSuffix(flat, k, value, counter) ==
    IF counter >= Len(value) THEN flat
    ELSE FlattenValue_NoSuffix(Put(flat, k, <<value[counter + 1]>>), k, value, counter + 1)

RECURSIVE FlattenValue(_, _, _, _)
FlattenValue(flat, k, value, counter) ==
    IF counter >= Len(value) THEN flat
    ELSE FlattenValue(Put(flat, k \o <<"_">> \o Str(counter), <<value[counter + 1]>>),
                      k, value, counter + 1)

RECURSIVE Flatten(_, _)
Flatten(d, n) ==
    IF n = 0 THEN <<>>
    ELSE LET flat == Flatten(d, n - 1)
         IN  IF Len(d[n].value) > 1
             THEN FlattenValue(flat, d[n].key, d[n].value, 0)
             ELSE Put(flat, d[n].key, d[n].value)

\* Lines 236-239: i[:i.index('_')]
ModelSource(i) == SubSeq(i, 1, IndexOfUnderscore(i))

\* Mutant of histMask: every flattened key passes the mask.
histMask_All(flat, modelHistID) == [i \in 1..Len(flat) |-> TRUE]

\* Line 242: the mask of the flattened keys whose model source is modelHistID
histMask(flat, modelHistID) ==
    [i \in 1..Len(flat) |-> ModelSource(flat[i].key) = modelHistID]

\* Mutant of indicesMatch: with no key passing the mask, every position is kept.
indicesMatch_OrAll(flat, modelHistID) ==
    IF \E i \in 1..Len(flat) : histMask(flat, modelHistID)[i]
    THEN {i \in 1..Len(flat) : histMask(flat, modelHistID)[i]}
    ELSE 1..Len(flat)

\* Lines 245-248: the positions (from 1) of the flattened keys that pass the mask
indicesMatch(flat, modelHistID) ==
    {i \in 1..Len(flat) : histMask(flat, modelHistID)[i]}

\* xr.concat([modelInput.ds, dsScenario], dim = 'time'): the time axes one after the other
Concat(ds, dsScenario) == ds.time \o dsScenario.time

\* Mutant of ExactCandidate: the last candidate under the key.
ExactCandidate_Last(d, k) == Get(d, k)[Len(Get(d, k))]

\* Line 208: scenarioModels[key][0]
ExactCandidate(d, k) == Get(d, k)[1]

Returned(scenario) ==
    [status |-> "returned", time |-> Concat(modelInput, scenario), scenario |-> <<scenario>>]

Raised(exception) == [status |-> exception, time |-> <<>>, scenario |-> <<>>]

\* Lines 205-209: the key is a key of the registry.
ExtendPeriodExact ==
    /\ comp = "extend"
    /\ pc = "new"
    /\ HasKey(scenarioModels, key)
    /\ modelFullPeriod' = Returned(ExactCandidate(scenarioModels, key))
    /\ pc' = "done"
    /\ UNCHANGED <<comp, trendVars, concatVars, key, modelInput, scenarioModels, scenarioModelsFlat, randomDraws>>

\* Lines 211-253: the randomised assignment; random.choice draws one of indicesMatch,
\* or raises IndexError on the empty list; a key without underscore raises ValueError
\* at line 237.
ExtendPeriodRandom ==
    /\ comp = "extend"
    /\ pc = "new"
    /\ ~HasKey(scenarioModels, key)
    /\ \E flat \in {Flatten(scenarioModels, Len(scenarioModels))} :
          /\ scenarioModelsFlat' = flat
          /\ IF \E i \in 1..Len(flat) : IndexOfUnderscore(flat[i].key) < 0
             THEN /\ modelFullPeriod' = Raised("ValueError")
                  /\ UNCHANGED randomDraws
             ELSE IF indicesMatch(flat, modelInput.source_id) = {}
             THEN /\ modelFullPeriod' = Raised("IndexError")
                  /\ UNCHANGED randomDraws
             ELSE \E choice \in indicesMatch(flat, modelInput.source_id) :
                  /\ modelFullPeriod' = Returned(flat[choice].value[1])
                  /\ randomDraws' = randomDraws + 1
    /\ pc' = "done"
    /\ UNCHANGED <<comp, trendVars, concatVars, key, modelInput, scenarioModels>>

\* The resolver's variables while another component runs.
ExtendIdle ==
    /\ key = <<>>
    /\ modelInput = [source_id |-> <<>>, variant_label |-> <<>>, time |-> <<>>]
    /\ scenarioModels = <<>>
    /\ scenarioModelsFlat = <<>>
    /\ modelFullPeriod = Raised("none")
    /\ randomDraws = 0

\* ---------------------------------------------------------------- ConcatModels
\* Lines 146-159: the time axes of the fragments one after the other, sorted by time.
RECURSIVE ConcatAll(_, _)
ConcatAll(fragments, n) ==
    IF n = 0 THEN <<>> ELSE ConcatAll(fragments, n - 1) \o fragments[n].time

SortByTime(time) == SortSeq(time, LAMBDA a, b : a < b)

\* Lines 170-176: the two calendars for which start_date and end_date are assigned.
BoundsAssigned(calendar) == calendar \in {"datetime64", "DatetimeNoLeap"}

\* Lines 162-167, 171-172, 175-176
periodStart == DateNum(1850, 1, 31)

periodEnd == DateNum(2014, 12, 1)

\* Lines 146-186
ConcatModels ==
    /\ comp = "concat"
    /\ pc = "new"
    /\ \E time \in {SortByTime(ConcatAll(modelDict, Len(modelDict)))} :
          stitched' =
              IF ~BoundsAssigned(modelDict[1].calendar)
              THEN [status |-> "UnboundLocalError", time |-> <<>>]
              ELSE IF time[1] <= periodStart /\ time[Len(time)] >= periodEnd
              THEN [status |-> "returned", time |-> time]
              ELSE [status |-> "ValueError", time |-> <<>>]
    /\ pc' = "done"
    /\ UNCHANGED <<comp, trendVars, extendVars, modelDict>>

\* The stitcher's variables while another component runs.
ConcatIdle ==
    /\ modelDict = <<>>
    /\ stitched = [status |-> "none", time |-> <<>>]

\* ---------------------------------------------------------------- gradient series
\* A monthly time axis: n samples from month m0 of year y0, every step months, on day d.
MonthlyAxis(y0, m0, n, step, d) ==
    [i \in 1..n |-> ((y0 * 12 + (m0 - 1)) + (i - 1) * step) * 31 + (d - 1)]

Sample(t, v) == [time |-> t, nan |-> FALSE, val |-> v]

\* The series over the axis whose value at sample index i (from 0) is f[i].
SeriesOf(axis, f) == [i \in 1..Len(axis) |-> Sample(axis[i], f[i - 1])]

\* Value patterns of the bounded model, by sample index.
ValueKinds == {"lin-2", "lin3", "quad", "zig"}

ValueAt(kind, i) ==
    CASE kind = "lin-2" -> (-2) * i
      [] kind = "lin3" -> 3 * i
      [] kind = "quad" -> i * i
      [] kind = "zig" -> (i % 3) * 5

\* First (year, month) of the series of the bounded model: before the analysis range,
\* and on either side of the 12/13-sample boundary of a two-year window.
AxisStarts == {<<YearStart - 1, 7>>, <<YearStart, 12>>, <<YearStart + 1, 1>>}

SegLens == {18, 12 * MaxSegYears}

\* The time axis of the run the gradient is computed from: n samples from (y0, m0)
\* ("none"); or that axis followed by the axis of a continuation run of 12 samples that
\* starts 6 samples before the first one ends, as ExtendPeriod concatenates them
\* ("concat"); or the latter sorted by time by the caller ("sorted").
RunAxis(y0, m0, n, step, d, overlap) ==
    CASE overlap = "none" -> MonthlyAxis(y0, m0, n, step, d)
      [] overlap = "concat" ->
            MonthlyAxis(y0, m0, n, step, d) \o MonthlyAxis(y0, m0 + (n - 6) * step, 12, step, d)
      [] overlap = "sorted" ->
            SortByTime(MonthlyAxis(y0, m0, n, step, d) \o MonthlyAxis(y0, m0 + (n - 6) * step, 12, step, d))

\* The series over axis with the values of kind, and a NaN at sample index nanAt (if any).
MakeSeries(axis, kind, nanAt) ==
    [i \in 1..Len(axis) |->
        [time |-> axis[i], nan |-> (i - 1 = nanAt), val |-> IF i - 1 = nanAt THEN 0 ELSE ValueAt(kind, i - 1)]]

InitTrend ==
    /\ comp = "trend"
    /\ pc = "new"
    /\ \E st \in AxisStarts, n \in SegLens, step \in {1, 2}, d \in {1, 16, 31},
          overlap \in {"none", "concat", "sorted"}, kind \in ValueKinds, nanAt \in {-1, 20} :
          gradient = MakeSeries(RunAxis(st[1], st[2], n, step, d, overlap), kind, nanAt)
    /\ minTrend \in 0..MaxMinTrend
    /\ yearStart = YearStart
    /\ yearEnd \in (YearStart + 1)..(YearStart + MaxSpan)
    /\ svdRaises \in BOOLEAN
    /\ startYear = yearStart
    /\ trends = EmptyDict
    /\ trendError = "none"
    /\ ExtendIdle
    /\ ConcatIdle

InitE2E ==
    /\ comp = "trend"
    /\ pc = "new"
    /\ gradient = SeriesOf(MonthlyAxis(1850, 1, (2022 - 1850 + 1) * 12, 1, 16),
                           [i \in 0..((2022 - 1850 + 1) * 12 - 1) |-> i % 7])
    /\ minTrend = 10
    /\ yearStart = YearStart
    /\ yearEnd = 2020
    /\ svdRaises = FALSE
    /\ startYear = yearStart
    /\ trends = EmptyDict
    /\ trendError = "none"
    /\ ExtendIdle
    /\ ConcatIdle

NextTrend == CalculateTrendsBegin \/ CalculateTrendsRow

NextE2E == NextTrend

SpecE2E == InitE2E /\ [][NextE2E]_vars

\* The trend engine's variables while another component runs.
TrendIdle ==
    /\ gradient = <<>>
    /\ minTrend = 0
    /\ yearStart = YearStart
    /\ yearEnd = YearStart
    /\ svdRaises = FALSE
    /\ startYear = YearStart
    /\ trends = EmptyDict
    /\ trendError = "none"

\* Source identifiers and variant labels of the bounded model (CMIP6 identifiers hold
\* no underscore: the file names the pipeline parses are underscore-separated).
SourceIDs == {<<"A">>, <<"A", "B">>}

VariantLabels == {<<"r", "1">>, <<"r", "2">>}

\* The historical run: the last three months of 2014.
HistoricalRuns ==
    {[source_id |-> src, variant_label |-> v, time |-> MonthlyAxis(2014, 10, 3, 1, 16)] :
        src \in SourceIDs, v \in VariantLabels}

\* Scenario runs that passed the registry's period check, by their first two months:
\* starting in 2015-01, right after the historical run, or in 2014-12, its last month.
ScenarioRuns ==
    {[source_id |-> src, parent_variant_label |-> v, time |-> MonthlyAxis(2014, m0, 2, 1, 16)] :
        src \in SourceIDs, v \in VariantLabels, m0 \in {13, 12}}

RECURSIVE SeqsUpTo(_, _)
SeqsUpTo(S, n) ==
    IF n = 0 THEN {<<>>}
    ELSE LET shorter == SeqsUpTo(S, n - 1)
         IN  shorter \cup {Append(q, x) : q \in shorter, x \in S}

InitExtend ==
    /\ comp = "extend"
    /\ pc = "new"
    /\ TrendIdle
    /\ modelInput \in HistoricalRuns
    /\ key = modelInput.source_id \o <<"_">> \o modelInput.variant_label
    /\ \E modelListScenario \in SeqsUpTo(ScenarioRuns, MaxScenarios) :
          scenarioModels = CreateScenarioDictionary(modelListScenario)
    /\ scenarioModelsFlat = <<>>
    /\ modelFullPeriod = Raised("none")
    /\ randomDraws = 0
    /\ ConcatIdle

NextExtend == ExtendPeriodExact \/ ExtendPeriodRandom

\* Time-axis representations xarray decodes CMIP6 calendars to.
Calendars == {"datetime64", "DatetimeNoLeap", "Datetime360Day"}

\* Time steps of the fragments of the bounded model: on either side of, and on, the
\* bounds of the required period.
FragmentDates ==
    {DateNum(1850, 1, 16), DateNum(1850, 1, 31), DateNum(1850, 2, 16),
     DateNum(2014, 11, 16), DateNum(2014, 12, 1), DateNum(2014, 12, 16)}

\* The time axis of a file: increasing time steps.
FragmentAxes ==
    {q \in SeqsUpTo(FragmentDates, MaxFragLen) :
        Len(q) >= 1 /\ \A i \in 1..(Len(q) - 1) : q[i] < q[i + 1]}

InitConcat ==
    /\ comp = "concat"
    /\ pc = "new"
    /\ TrendIdle
    /\ ExtendIdle
    /\ \E calendar \in Calendars, axes \in SeqsUpTo(FragmentAxes, MaxFragments) :
          /\ Len(axes) >= 1
          /\ modelDict = [i \in 1..Len(axes) |-> [calendar |-> calendar, time |-> axes[i]]]
    /\ stitched = [status |-> "none", time |-> <<>>]

NextConcat == ConcatModels

SpecTrend == InitTrend /\ [][NextTrend]_vars

SpecExtend == InitExtend /\ [][NextExtend]_vars

SpecConcat == InitConcat /\ [][NextConcat]_vars

Init == InitTrend \/ InitExtend \/ InitConcat

Next == NextTrend \/ NextExtend \/ NextConcat

Spec == Init /\ [][Next]_vars

\* ---------------------------------------------------------------- properties: trend matrix
\* The positions of the gradient samples whose timestamp lies in [s-01-01, e-12-31].
WindowIdx(s, e) ==
    {i \in 1..Len(gradient) :
        gradient[i].time >= DateNum(s, 1, 1) /\ gradient[i].time <= DateNum(e, 12, 31)}

\* Sum of term[i] over the positions i of I.
SumOver(I, term) ==
    SumRange([i \in 1..Len(gradient) |-> IF i \in I THEN term[i] ELSE 0], 1, Len(gradient))

\* v is 120 times the least-squares slope b of the values at the positions I against
\* 0..k-1, b being the solution of the normal equation b * (k*Sxx - Sx*Sx) = k*Sxy - Sx*Sy.
Is120TimesOLSSlope(v, I) ==
    \E x \in {[i \in 1..Len(gradient) |-> Cardinality({j \in I : j < i})] @@ <<>>} :
        LET k == Cardinality(I)
            Sx == SumOver(I, x)
            Sy == SumOver(I, [i \in 1..Len(gradient) |-> gradient[i].val])
            Sxy == SumOver(I, [i \in 1..Len(gradient) |-> x[i] * gradient[i].val])
            Sxx == SumOver(I, [i \in 1..Len(gradient) |-> x[i] * x[i]])
            b == Frac(k * Sxy - Sx * Sy, k * Sxx - Sx * Sx)
        IN  v = Frac(120 * b.num, b.den)

\* The gradient is in time order (as a TimeSeries is: the selected samples of a window
\* are then consecutive samples).
Ascending == \A i \in 1..(Len(gradient) - 1) : gradient[i].time <= gradient[i + 1].time

\* The gradient is the series y = c*i over the sample index i = 0, 1, ...
IsLinear(c) == \A i \in 1..Len(gradient) : ~gradient[i].nan /\ gradient[i].val = c * (i - 1)

Fits(cell) ==
    /\ cell[1] < cell[2]
    /\ cell[2] - cell[1] >= minTrend
    /\ Cardinality(WindowIdx(cell[1], cell[2])) > 12

\* C1: every recorded value of a window with startYear < endYear, endYear - startYear >=
\* minTrend and more than 12 selected samples is 120 times the least-squares slope of the
\* selected values against 0..k-1 (NaN when a selected value is NaN); for the series
\* y = c*i, in time order, the recorded value is exactly 120*c, whatever the window.
C1_TrendIs120TimesSlope ==
    pc = "done" =>
        \A cell \in DOMAIN trends :
            Fits(cell) =>
                \E I \in {WindowIdx(cell[1], cell[2])} :
                    /\ (\E i \in I : gradient[i].nan) => trends[cell].nan
                    /\ (\A i \in I : ~gradient[i].nan) => Is120TimesOLSSlope(trends[cell], I)
                    /\ \A c \in -3..3 :
                          (IsLinear(c) /\ Ascending) =>
                              trends[cell] = [nan |-> FALSE, num |-> 120 * c, den |-> 1]

\* A finished matrix of the series y = 3*i holding 360 for a fitted window.
C1_Witness ==
    /\ pc = "done"
    /\ IsLinear(3)
    /\ Ascending
    /\ \E cell \in DOMAIN trends :
          Fits(cell) /\ trends[cell] = [nan |-> FALSE, num |-> 360, den |-> 1]

\* The end year at which the loop stopped, when an exception was caught.
FailedEndYear ==
    CHOOSE e \in EndYears :
        /\ <<startYear, e>> \notin DOMAIN trends
        /\ \A e2 \in EndYears : e2 < e => <<startYear, e2>> \in DOMAIN trends

\* C2: a window with startYear >= endYear, or shorter than minTrend, or with at most 12
\* selected samples is recorded as missing, and no exception is raised for it.
C2_MissingWhenTooShort ==
    /\ \A cell \in DOMAIN trends : ~Fits(cell) => trends[cell].nan
    /\ \A cell \in DOMAIN trends : ~trends[cell].nan => Fits(cell)
    /\ trendError # "none" => Fits(<<startYear, FailedEndYear>>)

\* A matrix holding a missing entry for each of the three reasons.
C2_Witness ==
    /\ pc = "done"
    /\ \E cell \in DOMAIN trends : cell[1] >= cell[2] /\ trends[cell].nan
    /\ \E cell \in DOMAIN trends :
          cell[1] < cell[2] /\ cell[2] - cell[1] < minTrend /\ trends[cell].nan
    /\ \E cell \in DOMAIN trends :
          /\ cell[1] < cell[2]
          /\ cell[2] - cell[1] >= minTrend
          /\ Cardinality(WindowIdx(cell[1], cell[2])) = 12
          /\ trends[cell].nan

\* The cell range of the matrix.
KeyRange ==
    {<<s, e>> : s \in {y \in yearStart..yearEnd : y <= yearEnd - minTrend},
                e \in {y \in yearStart..yearEnd : y >= yearStart + minTrend}}

\* C3: when the fit of one window fails, that cell is recorded as missing and every
\* other pair of the cell range still receives its entry.
C3_FitFailureIsolated ==
    (pc = "done" /\ trendError # "none") =>
        /\ DOMAIN trends = KeyRange
        /\ trends[<<startYear, FailedEndYear>>].nan

\* C10: when no fit fails, the keys of the finished matrix are exactly the pairs with
\* startYear in [yearStart, yearEnd - minTrend] and endYear in [yearStart + minTrend, yearEnd].
C10_KeySetIsProduct ==
    (pc = "done" /\ trendError = "none") => DOMAIN trends = KeyRange

\* A finished matrix, built without failure, with missing and computed entries.
C10_Witness ==
    /\ pc = "done"
    /\ trendError = "none"
    /\ \E cell \in DOMAIN trends : trends[cell].nan
    /\ \E cell \in DOMAIN trends : ~trends[cell].nan
    /\ Cardinality(DOMAIN trends) >= 4

\* ---------------------------------------------------------------- properties: ExtendPeriod
\* The historical run's lineage key: its sourceID joined with its own variant label.
LineageKey == modelInput.source_id \o <<"_">> \o modelInput.variant_label

\* The registry has a key equal to the historical run's lineage key.
ExactMatch == \E i \in 1..Len(scenarioModels) : scenarioModels[i].key = LineageKey

\* C4: when the lineage key is a key of the registry, the result is the historical run
\* followed by the first candidate listed under that key, and nothing is drawn from the
\* random source.
C4_ExactMatchIsDeterministic ==
    (pc = "done" /\ comp = "extend" /\ ExactMatch) =>
        /\ modelFullPeriod.status = "returned"
        /\ \A i \in 1..Len(scenarioModels) :
              scenarioModels[i].key = LineageKey =>
                  /\ modelFullPeriod.scenario = <<scenarioModels[i].value[1]>>
                  /\ modelFullPeriod.time = modelInput.time \o scenarioModels[i].value[1].time
        /\ randomDraws = 0
        /\ scenarioModelsFlat = <<>>

\* An exact match whose key lists two different candidates, in a registry that also
\* lists another key of the same source.
C4_Witness ==
    /\ pc = "done"
    /\ comp = "extend"
    /\ \E i \in 1..Len(scenarioModels) :
          /\ scenarioModels[i].key = LineageKey
          /\ Len(scenarioModels[i].value) = 2
          /\ scenarioModels[i].value[1] # scenarioModels[i].value[2]
    /\ Len(scenarioModels) = 2
    /\ modelFullPeriod.status = "returned"

\* C5: without an exact match, a candidate selected by the randomised fallback has the
\* historical run's sourceID.
C5_FallbackKeepsSource ==
    (pc = "done" /\ comp = "extend" /\ ~ExactMatch /\ modelFullPeriod.status = "returned") =>
        /\ modelFullPeriod.scenario[1].source_id = modelInput.source_id
        /\ randomDraws = 1

\* A fallback selection from a registry that also lists a run of another source.
C5_Witness ==
    /\ pc = "done"
    /\ comp = "extend"
    /\ ~ExactMatch
    /\ modelFullPeriod.status = "returned"
    /\ \E i \in 1..Len(scenarioModels) :
          scenarioModels[i].value[1].source_id # modelInput.source_id
    /\ Len(scenarioModelsFlat) = MaxScenarios

\* C6: with neither an exact match nor a candidate of the historical run's sourceID in
\* the registry, the call ends in an exception and returns no run.
C6_NoCandidateRaises ==
    (/\ pc = "done"
     /\ comp = "extend"
     /\ ~ExactMatch
     /\ \A i \in 1..Len(scenarioModels) : \A j \in 1..Len(scenarioModels[i].value) :
            scenarioModels[i].value[j].source_id # modelInput.source_id) =>
        /\ modelFullPeriod.status \in {"IndexError", "ValueError"}
        /\ modelFullPeriod.time = <<>>
        /\ modelFullPeriod.scenario = <<>>

\* A call that failed although the registry lists runs (of another source).
C6_Witness ==
    /\ pc = "done"
    /\ comp = "extend"
    /\ Len(scenarioModels) >= 2
    /\ modelFullPeriod.status = "IndexError"
    /\ randomDraws = 0

\* C8: the time axis of the run returned by ExtendPeriod is strictly increasing.
C8_ExtendedAxisStrictlyIncreasing ==
    (pc = "done" /\ comp = "extend" /\ modelFullPeriod.status = "returned") =>
        \A i \in 1..(Len(modelFullPeriod.time) - 1) :
            modelFullPeriod.time[i] < modelFullPeriod.time[i + 1]

\* The candidates of the first n registry keys, in registry order, one entry per listed candidate.
RECURSIVE RegistryCandidates(_)
RegistryCandidates(n) ==
    IF n = 0 THEN <<>> ELSE RegistryCandidates(n - 1) \o scenarioModels[n].value

\* The historical run has no exact lineage match and ExtendPeriod has not run yet.
FallbackPending == comp = "extend" /\ pc = "new" /\ ~ExactMatch

\* C11: on the fallback path the flattened registry holds exactly one candidate under every
\* key, its keys are pairwise distinct, and its candidates are the registry's candidates, each
\* once and none missing (so the number of flattened keys is the number of candidates); and
\* before the draw, every candidate with the historical run's source id can be the one the
\* random selection returns.
C11_FlatteningKeepsEveryCandidate ==
    /\ (comp = "extend" /\ pc = "done" /\ ~ExactMatch) =>
          /\ \A i \in 1..Len(scenarioModelsFlat) : Len(scenarioModelsFlat[i].value) = 1
          /\ \A i, j \in 1..Len(scenarioModelsFlat) :
                 i # j => scenarioModelsFlat[i].key # scenarioModelsFlat[j].key
          /\ Len(scenarioModelsFlat) = Len(RegistryCandidates(Len(scenarioModels)))
          /\ [i \in 1..Len(scenarioModelsFlat) |-> scenarioModelsFlat[i].value[1]]
                 = RegistryCandidates(Len(scenarioModels))
    /\ FallbackPending =>
          \A i \in 1..Len(scenarioModels) : \A j \in 1..Len(scenarioModels[i].value) :
              scenarioModels[i].value[j].source_id = modelInput.source_id =>
                  ENABLED (ExtendPeriodRandom
                           /\ modelFullPeriod' = Returned(scenarioModels[i].value[j]))

\* A fallback draw from a registry of two lineages, one of them with two candidates, that
\* flattens to three keys.
C11_Witness ==
    /\ comp = "extend" /\ pc = "done" /\ ~ExactMatch
    /\ modelFullPeriod.status = "returned"
    /\ Len(scenarioModels) = 2
    /\ \E i \in 1..2 : Len(scenarioModels[i].value) = 2
    /\ Len(scenarioModelsFlat) = 3
    /\ \E i \in 1..3 : Len(scenarioModelsFlat[i].key) > Len(scenarioModels[1].key)


\* ---------------------------------------------------------------- properties: ConcatModels
\* All time steps of the fragments.
AllTimes == UNION {{modelDict[i].time[j] : j \in 1..Len(modelDict[i].time)} : i \in 1..Len(modelDict)}

\* The fragments, concatenated and sorted, span the required period.
Covers ==
    /\ \E t \in AllTimes : t <= DateNum(1850, 1, 31)
    /\ \E t \in AllTimes : t >= DateNum(2014, 12, 1)

\* C7: ConcatModels returns the dataset exactly when the sorted concatenation starts
\* at or before 1850-01-31 and ends at or after 2014-12-01; for every other input,
\* whatever the calendar, it fails with the coverage error (ValueError).
C7_ReturnsIffCovered ==
    (pc = "done" /\ comp = "concat") =>
        /\ (stitched.status = "returned") <=> Covers
        /\ ~Covers => stitched.status = "ValueError"

\* The inner loop for start_year s has run to its end (entries are only ever added).
RowDone(s) == pc = "done" \/ (pc = "loop" /\ startYear > s)

\* C9 as stated: for the monthly series 1850-2022 with minTrend = 10 and the range
\* 1870..2020 the matrix has a missing entry at (1870, 1875), a computed entry at
\* (1870, 1990) and no entry at (1995, 1870).
C9_EndToEnd_AsStated ==
    /\ RowDone(1870) =>
          /\ <<1870, 1875>> \in DOMAIN trends
          /\ trends[<<1870, 1875>>].nan
          /\ <<1870, 1990>> \in DOMAIN trends
          /\ ~trends[<<1870, 1990>>].nan
    /\ <<1995, 1870>> \notin DOMAIN trends

\* C9 (amended): for the monthly series 1850-2022 with minTrend = 10 and the range
\* 1870..2020 the matrix never has an entry at (1870, 1875) (its end years start at
\* 1880) nor at (1995, 1870); it has a computed entry at (1870, 1990) once the row of
\* 1870 is done, and a missing entry at the too-short window (2005, 2010) once the row of
\* 2005 is done.
C9_EndToEnd ==
    /\ <<1870, 1875>> \notin DOMAIN trends
    /\ <<1995, 1870>> \notin DOMAIN trends
    /\ RowDone(1870) =>
          /\ <<1870, 1990>> \in DOMAIN trends
          /\ ~trends[<<1870, 1990>>].nan
    /\ RowDone(2005) =>
          /\ <<2005, 2010>> \in DOMAIN trends
          /\ trends[<<2005, 2010>>].nan

\* The row of 1870 of the end-to-end scenario is done and holds the computed entry.
C9_Witness ==
    /\ RowDone(1870)
    /\ trendError = "none"
    /\ minTrend = 10
    /\ yearEnd = 2020
    /\ Len(gradient) = (2022 - 1850 + 1) * 12
    /\ <<1870, 1990>> \in DOMAIN trends
    /\ ~trends[<<1870, 1990>>].nan

====
